---------------------------- MODULE Spec2Model ----------------------------
(***************************************************************************)
(* A model of tg_reposter: the History Store (history_manager.py), the     *)
(* Rewrite Engine (TelegramHandler._paraphrase_text) and the Post Pipeline *)
(* (main.py).                                                              *)
(*                                                                         *)
(* Three specifications share the variables:                               *)
(*   Spec         the pipeline, run after run, with crashes and I/O faults *)
(*   SpecRewrite  _paraphrase_text applied to texts, shuffles and replies  *)
(*   SpecHistory  the HistoryManager API (load, mark, clear), with faults  *)
(***************************************************************************)
EXTENDS Integers, Sequences, FiniteSets, TLC

(***************************************************************************)
(* Bounds of the model.                                                    *)
(***************************************************************************)
MaxRuns == 2        \* consecutive runs of the process
MaxPosts == 2       \* posts one fetch_posts call yields
MaxTokens == 1      \* largest usage.total_tokens a reply reports

(***************************************************************************)
(* Text.  A string is a sequence of characters; " " stands for whitespace. *)
(***************************************************************************)
RECURSIVE lstrip(_)
lstrip(s) == IF s # <<>> /\ Head(s) = " " THEN lstrip(Tail(s)) ELSE s

RECURSIVE rstrip(_)
rstrip(s) ==
    IF s # <<>> /\ s[Len(s)] = " " THEN rstrip(SubSeq(s, 1, Len(s) - 1)) ELSE s

\* str.strip()
strip(s) == rstrip(lstrip(s))

\* Python's `a or b` on strings: None and "" are both falsy, both are <<>>.
StrOr(a, b) == IF a # <<>> THEN a ELSE b

(***************************************************************************)
(* Configuration (settings.py), fixed to one valid config.ini.             *)
(***************************************************************************)
paraphrase_models == <<"m1", "m2">>
source_channels == <<1, 2>>
min_delay == 1
max_delay == 2

Elems(seq) == {seq[i] : i \in DOMAIN seq}

\* The settings Settings.validate and get_client read, as the properties of
\* Settings return them for the config.ini of the runs of Spec.
config ==
    [api_id |-> 1, api_hash |-> <<"h">>, source_channels |-> source_channels,
     target_channel |-> <<"t">>, paraphrase_api_key |-> <<"k">>,
     paraphrase_models |-> paraphrase_models,
     min_delay |-> min_delay, max_delay |-> max_delay]

\* What a config.ini can give: an id that is 0 or not, strings and lists
\* that are empty or not, and delays below, at and above 0.
Delays == {-1, 0, 5, 10}
Configs ==
    [api_id : {0, 1}, api_hash : {<<>>, <<"h">>},
     source_channels : {<<>>, <<1, 2>>}, target_channel : {<<>>, <<"t">>},
     paraphrase_api_key : {<<>>, <<"k">>},
     paraphrase_models : {<<>>, <<"m1", "m2">>},
     min_delay : Delays, max_delay : Delays]

\* validate lines 123-132: all(required), by Python's truthiness.
all_required(c) ==
    /\ c.api_id # 0
    /\ c.api_hash # <<>>
    /\ c.source_channels # <<>>
    /\ c.target_channel # <<>>
    /\ c.paraphrase_api_key # <<>>
    /\ c.paraphrase_models # <<>>

\* Settings.validate with `>=` for `>` in its last test.
validate_rejects_equal(c) ==
    IF ~all_required(c) THEN "missing_required"
    ELSE IF c.paraphrase_models = <<>> THEN "no_models"
    ELSE IF c.min_delay < 0 \/ c.max_delay < 0 THEN "negative_delay"
    ELSE IF c.min_delay >= c.max_delay THEN "min_above_max"
    ELSE "ok"

\* Settings.validate: "ok" when it returns, else the ValueError it raises.
validate(c) ==
    IF ~all_required(c) THEN "missing_required"
    ELSE IF c.paraphrase_models = <<>> THEN "no_models"
    ELSE IF c.min_delay < 0 \/ c.max_delay < 0 THEN "negative_delay"
    ELSE IF c.min_delay > c.max_delay THEN "min_above_max"
    ELSE "ok"

\* get_client lines 17-18
get_client_raises(c) == c.api_id = 0 \/ c.api_hash = <<>>

\* main lines 21-33: "ok", or the step of the setup that raised.  healthy:
\* the models.list() request of health_check returns.
setup(c, healthy) ==
    IF validate(c) # "ok" THEN "validate_raised"
    ELSE IF get_client_raises(c) THEN "get_client_raised"
    ELSE IF ~healthy THEN "health_check_raised"
    ELSE "ok"

\* Where main is after a setup step raised (lines 113-115).
Aborted == {"validate_raised", "get_client_raised", "health_check_raised"}
ModelSet == Elems(paraphrase_models)

\* random.sample(models, len(models)): every ordering of the list.
Shuffles(models) ==
    LET n == Len(models)
        Bij == {f \in [1..n -> 1..n] : \A i, j \in 1..n : f[i] = f[j] => i = j}
    IN  {[i \in 1..n |-> models[f[i]]] : f \in Bij}

(***************************************************************************)
(* What one chat.completions.create call can do: raise, or return a reply  *)
(* whose message content is None, or a string, with usage possibly None.   *)
(* usage is <<>> for None and <<n>> for total_tokens = n.                  *)
(***************************************************************************)
ReplyTexts == {<<>>, <<" ">>, <<" ", "x", " ">>}
Usages == {<<>>} \cup {<<n>> : n \in 1..MaxTokens}
Responses ==
    {[kind |-> "error", content |-> <<>>, usage |-> <<>>],
     [kind |-> "none", content |-> <<>>, usage |-> <<>>]}
    \cup [kind : {"ok"}, content : ReplyTexts, usage : Usages]

AllFailedError == "all_models_unavailable"

\* line 290: response.choices[0].message.content.strip()
reply_content(response) == strip(response.content)

\* line 293: response.usage.total_tokens if response.usage else 0
reply_tokens(response) ==
    IF response.usage = <<>> THEN 0 ELSE response.usage[1]

\* ReplyUsable with the emptiness test made on the raw content.
ReplyUsableUnstripped(response) ==
    response.kind = "ok" /\ response.content # <<>>

\* lines 274-292: the request did not raise, .strip() did not raise on a
\* None content, and `if content:` found the stripped content non-empty.
ReplyUsable(response) ==
    response.kind = "ok" /\ reply_content(response) # <<>>

\* lines 268-317 of _paraphrase_text: the loop over shuffled_models from
\* index i on.  resp[m] is what the request to model m does.  The field
\* "requests" is not part of the returned dict: it records the models a
\* completion request was issued to, in order.
RECURSIVE TryModelsContinue(_, _, _, _)
RECURSIVE TryModels(_, _, _, _)
TryModels(original_text, shuffled_models, resp, i) ==
    IF i > Len(shuffled_models)
    THEN [success |-> FALSE, text |-> original_text, error |-> AllFailedError,
          model_name |-> "failed", tokens_used |-> 0,
          requests |-> shuffled_models]
    ELSE LET model_name == shuffled_models[i]
             response == resp[model_name]
         IN  IF ReplyUsable(response)
             THEN [success |-> TRUE, text |-> reply_content(response),
                   model_name |-> model_name,
                   tokens_used |-> reply_tokens(response),
                   requests |-> SubSeq(shuffled_models, 1, i)]
             ELSE TryModelsContinue(original_text, shuffled_models, resp, i)

\* TryModelsContinue with `break` in place of `continue`.
TryModelsBreak(original_text, shuffled_models, resp, i) ==
    [success |-> FALSE, text |-> original_text, error |-> AllFailedError,
     model_name |-> "failed", tokens_used |-> 0,
     requests |-> SubSeq(shuffled_models, 1, i)]

\* `continue` (line 307) and the fall-through of an empty reply: next model.
TryModelsContinue(original_text, shuffled_models, resp, i) ==
    TryModels(original_text, shuffled_models, resp, i + 1)

\* IsBlank without the strip: `if not original_text`.
IsBlankUnstripped(original_text) == original_text = <<>>

\* lines 254-260: `if not original_text.strip()`
IsBlank(original_text) == strip(original_text) = <<>>

\* _paraphrase_text going through the shuffled list a second time.
paraphrase_text_two_passes(original_text, shuffled_models, resp) ==
    IF IsBlank(original_text)
    THEN [success |-> TRUE, text |-> original_text, model_name |-> "no_text",
          tokens_used |-> 0, requests |-> <<>>]
    ELSE TryModels(original_text, shuffled_models \o shuffled_models, resp, 1)

\* TelegramHandler._paraphrase_text, after the shuffle has been drawn.
paraphrase_text(original_text, shuffled_models, resp) ==
    IF IsBlank(original_text)
    THEN [success |-> TRUE, text |-> original_text, model_name |-> "no_text",
          tokens_used |-> 0, requests |-> <<>>]
    ELSE TryModels(original_text, shuffled_models, resp, 1)

(***************************************************************************)
(* Posts (pyrogram Message, read-only).  An absent caption or text is <<>>.*)
(***************************************************************************)
Posts ==
    {[chat |-> 1, id |-> 1, date |-> 1, caption |-> <<>>, text |-> <<"a">>],
     [chat |-> 1, id |-> 2, date |-> 1, caption |-> <<" ">>, text |-> <<>>],
     [chat |-> 2, id |-> 1, date |-> 1, caption |-> <<"a", "b">>,
      text |-> <<>>]}

SignaturePrefixLen == 100

\* content[:100] without the slice.
PrefixWhole(s, n) == s

\* content[:100]
Prefix(s, n) == SubSeq(s, 1, IF Len(s) < n THEN Len(s) ELSE n)

\* TelegramHandler.generate_post_signature.  The md5 hex digest of the
\* formatted string is represented by the tuple of the formatted components.
generate_post_signature(message) ==
    LET content == StrOr(message.caption, message.text)
    IN  <<message.chat, message.id, message.date,
          Prefix(content, SignaturePrefixLen)>>

Sigs == {generate_post_signature(p) : p \in Posts}
NoSig == <<>>

(***************************************************************************)
(* History Store (history_manager.py).  The file sent_posts.json is        *)
(* missing, holds a JSON record, or holds text json.load rejects (an empty *)
(* or partly written file).                                                *)
(***************************************************************************)
FileMissing == [kind |-> "missing", sent_posts |-> <<>>]
FileCorrupt == [kind |-> "corrupt", sent_posts |-> <<>>]

\* list(self.sent_posts) without its first entry.
sent_posts_list_truncated(posts_in_memory) ==
    LET n == Cardinality(posts_in_memory)
        l == CHOOSE l \in [1..n -> posts_in_memory] :
                 Elems(l) = posts_in_memory
    IN  IF n = 0 THEN <<>> ELSE Tail(l)

\* line 41: list(self.sent_posts), every entry of the set once, in the
\* iteration order of the set (one order for each set).
sent_posts_list(posts_in_memory) ==
    LET n == Cardinality(posts_in_memory)
    IN  CHOOSE l \in [1..n -> posts_in_memory] : Elems(l) = posts_in_memory

\* lines 39-45: the JSON record written for the set S; "last_updated" is
\* read by nobody and left out.
FileValid(S) == [kind |-> "valid", sent_posts |-> sent_posts_list(S)]
Files == {FileMissing, FileCorrupt} \cup {FileValid(S) : S \in SUBSET Sigs}

\* What a write can do: succeed; fail in open() before the file is touched;
\* fail in json.dump after open(..., "w") has truncated the file.
WriteOutcomes == {"ok", "open_fails", "dump_fails"}

\* _save_history with the file opened in mode "a": the record is appended
\* to what the file holds.
save_history_append(f, posts_in_memory, wr) ==
    IF wr = "ok"
    THEN IF f.kind = "missing" THEN FileValid(posts_in_memory)
         ELSE FileCorrupt
    ELSE IF wr = "open_fails" THEN f
    ELSE FileCorrupt

\* HistoryManager._save_history: the new file; exceptions are swallowed.
save_history(f, posts_in_memory, wr) ==
    IF wr = "ok" THEN FileValid(posts_in_memory)
    ELSE IF wr = "open_fails" THEN f
    ELSE FileCorrupt

\* read_record reading a key the record does not have: the default [].
read_record_wrong_key(f) == {}

\* read_record taking every fingerprint there is as stored.
read_record_any(f) == Sigs

\* line 23: self.sent_posts = set(data.get("sent_posts", []))
read_record(f) == Elems(f.sent_posts)

\* HistoryManager.__init__ and _load_history: the in-memory set and the file
\* afterwards.  readOK = FALSE: open() or the read raises.
load_history(f, readOK, wr) ==
    IF f.kind = "missing"
    THEN [sent_posts |-> {}, file |-> save_history(f, {}, wr)]
    ELSE IF readOK /\ f.kind = "valid"
         THEN [sent_posts |-> read_record(f), file |-> f]
         ELSE [sent_posts |-> {}, file |-> f]

\* is_post_sent that finds nothing.
is_post_sent_never(posts_in_memory, post_signature) == FALSE

\* HistoryManager.is_post_sent
is_post_sent(posts_in_memory, post_signature) ==
    post_signature \in posts_in_memory

\* mark_post_sent that takes out a fingerprint it finds in the set.
mark_add_toggle(posts_in_memory, post_signature) ==
    IF post_signature \in posts_in_memory
    THEN posts_in_memory \ {post_signature}
    ELSE posts_in_memory \cup {post_signature}

\* line 61: self.sent_posts.add(post_signature)
mark_add(posts_in_memory, post_signature) ==
    posts_in_memory \cup {post_signature}

\* _save_history re-raising what it caught.
save_history_raises_error(wr) == wr # "ok"

\* _save_history lines 50-51: the exception is logged, nothing is raised.
save_history_raises(wr) == FALSE

\* _load_history lines 31-33: the exception is logged, nothing is raised.
load_history_raises(f, readOK) == FALSE

\* HistoryManager.get_total_sent
get_total_sent(posts_in_memory) == Cardinality(posts_in_memory)

\* The file after the process dies inside _save_history: before open(), or
\* after open(..., "w") truncated it and before json.dump completed.
CrashedWrite(f) == {f, FileCorrupt}

\* The fingerprints a later load can get from the file.
DurableSet(f) == IF f.kind = "valid" THEN Elems(f.sent_posts) ELSE {}

(***************************************************************************)
(* send_post and the statistics of main.                                   *)
(***************************************************************************)
Notice == <<"!">>

\* send_post reporting the success of the paraphrase as its own.
send_post_paraphrase_success(original_text, paraphrase_result) ==
    IF paraphrase_result.success
    THEN [success |-> TRUE, model_name |-> paraphrase_result.model_name,
          tokens_used |-> paraphrase_result.tokens_used,
          paraphrase_success |-> TRUE,
          new_text |-> paraphrase_result.text]
    ELSE [success |-> FALSE, model_name |-> "original", tokens_used |-> 0,
          paraphrase_success |-> FALSE,
          new_text |-> original_text \o Notice]

\* send_post lines 155-170 and 178-183, once the dispatch has returned.
send_post(original_text, paraphrase_result) ==
    IF paraphrase_result.success
    THEN [success |-> TRUE, model_name |-> paraphrase_result.model_name,
          tokens_used |-> paraphrase_result.tokens_used,
          paraphrase_success |-> TRUE,
          new_text |-> paraphrase_result.text]
    ELSE [success |-> TRUE, model_name |-> "original", tokens_used |-> 0,
          paraphrase_success |-> FALSE,
          new_text |-> original_text \o Notice]

StatNames == ModelSet \cup {"no_text", "original", "unknown"}

\* main lines 38-45
InitStats ==
    [total_processed |-> 0, sent_posts |-> 0, skipped_posts |-> 0,
     failed_paraphrase |-> 0, tokens_used |-> 0,
     models_used |-> [n \in StatNames |-> 0]]

\* stats_after_send without the entry in models_used.
stats_after_send_unnamed(st, result) ==
    IF result.success
    THEN [st EXCEPT !.sent_posts = @ + 1,
                    !.tokens_used = @ + result.tokens_used]
    ELSE [st EXCEPT !.failed_paraphrase = @ + 1]

\* stats_after_send taking the success of the rewrite for that of the send.
stats_after_send_by_rewrite(st, result) ==
    IF result.success /\ result.paraphrase_success
    THEN [st EXCEPT !.sent_posts = @ + 1,
                    !.tokens_used = @ + result.tokens_used,
                    !.models_used[result.model_name] = @ + 1]
    ELSE [st EXCEPT !.failed_paraphrase = @ + 1]

\* main lines 78-98: the statistics after send_post returned `result`.
stats_after_send(st, result) ==
    IF result.success
    THEN [st EXCEPT !.sent_posts = @ + 1,
                    !.tokens_used = @ + result.tokens_used,
                    !.models_used[result.model_name] = @ + 1]
    ELSE [st EXCEPT !.failed_paraphrase = @ + 1]

\* fetch_posts: the accepted posts of one channel, in the order yielded.
FetchResults(channel) ==
    LET Of == {p \in Posts : p.chat = channel}
    IN  UNION {[1..n -> Of] : n \in 0..MaxPosts}

\* What get_chat_history yields for a channel, newest first: the messages
\* with their date and whether they are service messages.  from_date is
\* the start of the period; the view, reaction and comment filters are at
\* their default of 0.
from_date == 1
ChatMessages(channel) ==
    {[message |-> p, date |-> d, service |-> sv] :
        p \in {q \in Posts : q.chat = channel}, d \in 0..1, sv \in BOOLEAN}
ChatHistories(channel) ==
    UNION {[1..n -> ChatMessages(channel)] : n \in 0..MaxPosts}

\* _filter_post lines 87-91
filter_post(m) ==
    /\ ~m.service
    /\ StrOr(m.message.text, m.message.caption) # <<>>

\* The loop of fetch_posts.  raise_at is the position in the history at
\* which get_chat_history or _filter_post raises, 0 when neither does.
RECURSIVE FetchLoop(_, _, _, _)
FetchLoop(chat_history, raise_at, i, collected) ==
    IF i = raise_at
    THEN [posts |-> collected, error |-> TRUE]
    ELSE IF i > Len(chat_history)
    THEN [posts |-> collected, error |-> FALSE]
    ELSE IF chat_history[i].date < from_date
    THEN [posts |-> collected, error |-> FALSE]
    ELSE FetchLoop(chat_history, raise_at, i + 1,
                   IF filter_post(chat_history[i])
                   THEN Append(collected, chat_history[i].message)
                   ELSE collected)

\* fetch_posts with `posts = []` in the except clause.
fetch_posts_drops_collected(chat_history, raise_at) ==
    LET r == FetchLoop(chat_history, raise_at, 1, <<>>)
    IN  IF r.error THEN [r EXCEPT !.posts = <<>>] ELSE r

\* TelegramHandler.fetch_posts: the list returned, and whether the except
\* clause of lines 80-81 ran.
fetch_posts(chat_history, raise_at) ==
    FetchLoop(chat_history, raise_at, 1, <<>>)

\* The dict _paraphrase_text returns, with the number of completion
\* requests the call issued in place of their list.
ResultDict(r) == [r EXCEPT !.requests = Len(@)]

VARIABLES
    rw,               \* SpecRewrite: the call of _paraphrase_text
    call,             \* SpecValidate, SpecSignature: the call of the function
    file,             \* sent_posts.json
    sent_posts,       \* HistoryManager.sent_posts
    hpc,              \* SpecHistory: "down", "ready", "saving"
    hist,             \* SpecHistory: what has happened to the store
    pc,               \* Spec: where main is
    run,              \* Spec: number of runs started
    chIdx,            \* Spec: index into source_channels
    posts,            \* Spec: the posts fetched for the channel
    pIdx,             \* Spec: index into posts
    paraphrase_result,\* Spec: what _paraphrase_text returned for the post
    stats,            \* Spec: the run statistics
    cur,              \* Spec: what has been done for the post last begun
    stats0,           \* Spec: the statistics when that post was begun
    runSent,          \* Spec: fingerprints dispatched without error this run
    runFetched,       \* Spec: number of posts fetch_posts returned this run
    runTally,         \* Spec: posts whose dispatch raised this run, and the
                      \*       tokens_used of the results send_post returned
    loaded,           \* Spec: the set _load_history left in memory this run
    persisted,        \* Spec: fingerprints marked with a successful write,
                      \*       no history I/O fault since
    prevGap,          \* Spec: fingerprints dispatched without error in the
                      \*       previous run and not in the file at its end
    fetchLog          \* SpecFetch: the call of fetch_posts that has just
                      \*       returned

rwVars == <<rw>>
callVars == <<call>>
histVars == <<hpc, hist>>
storeVars == <<file, sent_posts>>
mainVars == <<pc, run, chIdx, posts, pIdx, paraphrase_result, stats, cur,
              stats0, runSent, runFetched, runTally, loaded, persisted,
              prevGap, fetchLog>>
vars == <<rw, call, file, sent_posts, hpc, hist, pc, run, chIdx, posts, pIdx,
          paraphrase_result, stats, cur, stats0, runSent, runFetched, runTally,
          loaded, persisted, prevGap, fetchLog>>

NoResult == [success |-> FALSE, model_name |-> "none"]
NoPost == [sig |-> NoSig, inHist |-> FALSE, wasPersisted |-> FALSE,
           rewrites |-> 0, dispatches |-> 0,
           outcome |-> "none", marks |-> 0, sleeps |-> 0, delay |-> 0,
           sent_text |-> <<>>]
\* hist: stale, a read or a clear failed since the file was last read or
\* written; fault, some read or write has failed; before and fileBefore,
\* memory and file when the last mark_post_sent was called, fp its argument;
\* crashed, where the process died; op, the last operation; write, the
\* outcome of the most recent write; written, the in-memory set that write
\* stored.
\* prevGap.cut: the process was interrupted between the dispatch of the
\* post and mark_post_sent; prevGap.failed: mark_post_sent was called, no
\* write from then on put the fingerprint in the file.
NoTally == [errored |-> 0, tokens_used |-> 0]
NoFetch == [state |-> "none"]
NoGap == [failed |-> {}, cut |-> {}]
HistQuiet == [stale |-> FALSE, fault |-> FALSE, before |-> {},
              crashed |-> "no", op |-> "none", write |-> "none",
              written |-> {}, fp |-> NoSig, fileBefore |-> FileMissing]

Init ==
    /\ rw = [state |-> "ready"]
    /\ call = [state |-> "ready"]
    /\ file = FileMissing
    /\ sent_posts = {}
    /\ hpc = "down"
    /\ hist = HistQuiet
    /\ pc = "idle"
    /\ run = 0
    /\ chIdx = 0
    /\ posts = <<>>
    /\ pIdx = 0
    /\ paraphrase_result = NoResult
    /\ stats = InitStats
    /\ cur = NoPost
    /\ stats0 = InitStats
    /\ runSent = {}
    /\ runFetched = 0
    /\ runTally = NoTally
    /\ loaded = {}
    /\ persisted = {}
    /\ prevGap = NoGap
    /\ fetchLog = NoFetch

(***************************************************************************)
(* SpecRewrite: _paraphrase_text as a function of its inputs.              *)
(***************************************************************************)
Texts == {<<>>, <<" ">>, <<" ", " ">>, <<"a">>, <<" ", "a", "b">>}

RwReady == [state |-> "ready"]

\* config.paraphrase_models as _paraphrase_text may be given it.
ModelLists == {<<"m1">>, <<"m1", "m2">>, <<"m1", "m2", "m3">>}

RwCall ==
    /\ rw.state = "ready"
    /\ \E original_text \in Texts, models \in ModelLists :
          \E shuffled \in Shuffles(models),
             resp \in [Elems(models) -> Responses] :
             rw' = [state |-> "returned", text |-> original_text,
                    models |-> models, shuffled |-> shuffled, resp |-> resp,
                    result |-> paraphrase_text(original_text, shuffled, resp)]
    /\ UNCHANGED <<callVars, storeVars, histVars, mainVars>>

RwReturn ==
    /\ rw.state = "returned"
    /\ rw' = RwReady
    /\ UNCHANGED <<callVars, storeVars, histVars, mainVars>>

RwNext == RwCall \/ RwReturn
SpecRewrite == Init /\ [][RwNext]_vars

(***************************************************************************)
(* SpecValidate: Settings.validate as a function of the configuration.     *)
(***************************************************************************)
CallReady == [state |-> "ready"]

ValidateCall ==
    /\ call.state = "ready"
    /\ \E c \in Configs :
          call' = [state |-> "returned", config |-> c, result |-> validate(c)]
    /\ UNCHANGED <<rwVars, storeVars, histVars, mainVars>>

CallReturn ==
    /\ call.state = "returned"
    /\ call' = CallReady
    /\ UNCHANGED <<rwVars, storeVars, histVars, mainVars>>

ValidateNext == ValidateCall \/ CallReturn
SpecValidate == Init /\ [][ValidateNext]_vars

(***************************************************************************)
(* SpecSignature: generate_post_signature as a function of the message,    *)
(* applied to two messages.                                                *)
(***************************************************************************)
\* A text of n characters: "a" up to the length of the signature prefix,
\* then the character c.
LongText(n, c) == [i \in 1..n |-> IF i <= SignaturePrefixLen THEN "a" ELSE c]

Captions ==
    {<<>>, <<" ">>, LongText(SignaturePrefixLen + 1, "x"),
     LongText(SignaturePrefixLen + 1, "y")}
MessageTexts ==
    {<<>>, <<"a">>, LongText(SignaturePrefixLen - 1, "x"),
     LongText(SignaturePrefixLen, "x"), LongText(SignaturePrefixLen + 1, "y"),
     LongText(SignaturePrefixLen + 2, "x")}
Messages ==
    [chat : {1, 2}, id : {1, 2}, date : {1, 2}, caption : Captions,
     text : MessageTexts]

SignatureCall ==
    /\ call.state = "ready"
    /\ \E a \in Messages, b \in Messages :
          call' = [state |-> "returned", a |-> a, b |-> b,
                   sig_a |-> generate_post_signature(a),
                   sig_b |-> generate_post_signature(b)]
    /\ UNCHANGED <<rwVars, storeVars, histVars, mainVars>>

SignatureNext == SignatureCall \/ CallReturn
SpecSignature == Init /\ [][SignatureNext]_vars

(***************************************************************************)
(* SpecHistory: the HistoryManager API driven by an arbitrary caller.      *)
(* mark_post_sent is split at the call of _save_history so that the        *)
(* process can die between the insertion and the write.                    *)
(***************************************************************************)
\* HistoryManager(): a process constructs the store.
HNew ==
    /\ hpc = "down"
    /\ \E readOK \in BOOLEAN, wr \in WriteOutcomes :
          LET r == load_history(file, readOK, wr)
              readFailed == file.kind # "missing" /\ ~readOK
              writeFailed == file.kind = "missing" /\ wr # "ok"
          IN  /\ sent_posts' = r.sent_posts
              /\ file' = r.file
              /\ hist' = [hist EXCEPT
                     !.stale = readFailed,
                     !.fault = @ \/ readFailed \/ writeFailed,
                     !.op = IF file.kind = "missing" THEN "create"
                            ELSE IF readOK /\ file.kind = "valid"
                                 THEN "load" ELSE "load_failed",
                     !.write = IF file.kind # "missing" THEN @
                               ELSE IF wr = "ok" THEN "ok" ELSE "failed",
                     !.written = IF file.kind # "missing" THEN @ ELSE {}]
              /\ hpc' = IF \/ load_history_raises(file, readOK)
                           \/ (file.kind = "missing"
                                  /\ save_history_raises(wr))
                        THEN "down" ELSE "ready"
    /\ UNCHANGED <<rwVars, callVars, mainVars>>

\* mark_post_sent, line 61
HMarkPostSent ==
    /\ hpc = "ready"
    /\ \E fp \in Sigs :
          /\ sent_posts' = mark_add(sent_posts, fp)
          /\ hist' = [hist EXCEPT !.before = sent_posts, !.crashed = "no",
                                  !.op = "insert", !.fp = fp,
                                  !.fileBefore = file]
    /\ hpc' = "saving"
    /\ UNCHANGED <<file, rwVars, callVars, mainVars>>

\* mark_post_sent, line 62
HSave ==
    /\ hpc = "saving"
    /\ \E wr \in WriteOutcomes :
          /\ file' = save_history(file, sent_posts, wr)
          /\ hist' = [hist EXCEPT
                 !.stale = IF wr = "ok" THEN FALSE ELSE @,
                 !.fault = @ \/ wr # "ok",
                 !.op = "mark",
                 !.write = IF wr = "ok" THEN "ok" ELSE "failed",
                 !.written = IF wr = "ok" THEN sent_posts ELSE {}]
          /\ hpc' = IF save_history_raises(wr) THEN "down" ELSE "ready"
    /\ UNCHANGED <<sent_posts, rwVars, callVars, mainVars>>

\* clear_history
HClear ==
    /\ hpc = "ready"
    /\ sent_posts' = {}
    /\ \E wr \in WriteOutcomes :
          /\ file' = save_history(file, {}, wr)
          /\ hist' = [hist EXCEPT
                 !.stale = wr # "ok",
                 !.fault = @ \/ wr # "ok",
                 !.before = {}, !.crashed = "no",
                 !.op = "clear", !.fp = NoSig, !.fileBefore = FileMissing,
                 !.write = IF wr = "ok" THEN "ok" ELSE "failed",
                 !.written = {}]
          /\ hpc' = IF save_history_raises(wr) THEN "down" ELSE "ready"
    /\ UNCHANGED <<rwVars, callVars, mainVars>>

\* The process dies; its memory is gone.
HCrash ==
    /\ hpc \in {"ready", "saving"}
    /\ file' \in (IF hpc = "saving" THEN CrashedWrite(file) ELSE {file})
    /\ sent_posts' = {}
    /\ hist' = [hist EXCEPT
           !.crashed = IF hpc = "saving" THEN "in_mark" ELSE "other",
           !.op = "crash",
           !.write = IF file' # file THEN "failed" ELSE @,
           !.written = IF file' # file THEN {} ELSE @]
    /\ hpc' = "down"
    /\ UNCHANGED <<rwVars, callVars, mainVars>>

HNext == HNew \/ HMarkPostSent \/ HSave \/ HClear \/ HCrash
SpecHistory == Init /\ [][HNext]_vars

(***************************************************************************)
(* Spec: main(), one run after another on the same history file.  The      *)
(* actions are the stretches of main between its suspension points;        *)
(* mark_post_sent is split at the call of _save_history.                   *)
(***************************************************************************)
Running == {"history", "fetch", "post", "paraphrase", "dispatch", "mark",
            "save", "sleep"}

\* What is in memory when no process runs.
NoProcess ==
    /\ sent_posts' = {}
    /\ chIdx' = 0
    /\ posts' = <<>>
    /\ pIdx' = 0
    /\ paraphrase_result' = NoResult
    /\ stats' = InitStats
    /\ cur' = NoPost
    /\ stats0' = InitStats
    /\ runSent' = {}
    /\ runFetched' = 0
    /\ runTally' = NoTally
    /\ fetchLog' = NoFetch
    /\ loaded' = {}

\* main lines 21-33: the configuration is valid, the client is built and the
\* health check passes.
StartRun ==
    /\ pc = "idle"
    /\ run < MaxRuns
    /\ setup(config, TRUE) = "ok"
    /\ run' = run + 1
    /\ pc' = "history"
    /\ UNCHANGED <<rwVars, callVars, histVars, storeVars, chIdx, posts, pIdx,
                   paraphrase_result, stats, cur, stats0, runSent, runFetched,
                   runTally, loaded, persisted, prevGap, fetchLog>>

\* SetupFails with the HistoryManager constructed before the checks.
SetupFailsAfterHistory ==
    /\ pc = "idle"
    /\ run < MaxRuns
    /\ \E c \in Configs, healthy \in BOOLEAN :
          /\ setup(c, healthy) # "ok"
          /\ pc' = setup(c, healthy)
    /\ LET r == load_history(file, TRUE, "ok")
       IN  /\ sent_posts' = r.sent_posts
           /\ file' = r.file
    /\ run' = run + 1
    /\ UNCHANGED <<rwVars, callVars, histVars, chIdx, posts, pIdx,
                   paraphrase_result, stats, cur, stats0, runSent, runFetched,
                   runTally, loaded, persisted, prevGap, fetchLog>>

\* main lines 21-33 and 113-115: the configuration is rejected by validate,
\* or get_client or the health check raises; main logs and re-raises.
SetupFails ==
    /\ pc = "idle"
    /\ run < MaxRuns
    /\ \E c \in Configs, healthy \in BOOLEAN :
          /\ setup(c, healthy) # "ok"
          /\ pc' = setup(c, healthy)
    /\ run' = run + 1
    /\ UNCHANGED <<rwVars, callVars, histVars, storeVars, chIdx, posts, pIdx,
                   paraphrase_result, stats, cur, stats0, runSent, runFetched,
                   runTally, loaded, persisted, prevGap, fetchLog>>

\* main lines 36-50: HistoryManager() and the empty statistics.
HistoryManagerInit ==
    /\ pc = "history"
    /\ \E readOK \in BOOLEAN, wr \in WriteOutcomes :
          LET r == load_history(file, readOK, wr)
              fault == \/ file.kind # "missing" /\ ~readOK
                       \/ file.kind = "missing" /\ wr # "ok"
          IN  /\ sent_posts' = r.sent_posts
              /\ file' = r.file
              /\ loaded' = r.sent_posts
              /\ persisted' = IF fault THEN {} ELSE persisted
    /\ stats' = InitStats
    /\ chIdx' = 1
    /\ pc' = "fetch"
    /\ UNCHANGED <<rwVars, callVars, histVars, run, posts, pIdx,
                   paraphrase_result, cur, stats0, runSent, runFetched,
                   runTally, prevGap, fetchLog>>

\* main lines 52-58: the next source channel is scanned.
FetchPosts ==
    /\ pc = "fetch"
    /\ chIdx <= Len(source_channels)
    /\ posts' \in FetchResults(source_channels[chIdx])
    /\ pIdx' = 1
    /\ runFetched' = runFetched + Len(posts')
    /\ pc' = "post"
    /\ UNCHANGED <<rwVars, callVars, histVars, storeVars, run, chIdx,
                   paraphrase_result, stats, cur, stats0, runSent, runTally,
                   loaded, persisted, prevGap, fetchLog>>

\* main lines 109-111: every channel has been scanned; the statistics are
\* printed.
Finish ==
    /\ pc = "fetch"
    /\ chIdx > Len(source_channels)
    /\ pc' = "done"
    /\ UNCHANGED <<rwVars, callVars, histVars, storeVars, run, chIdx, posts,
                   pIdx, paraphrase_result, stats, cur, stats0, runSent,
                   runFetched, runTally, loaded, persisted, prevGap, fetchLog>>

\* main line 60, the posts of the channel are exhausted.
EndChannel ==
    /\ pc = "post"
    /\ pIdx > Len(posts)
    /\ chIdx' = chIdx + 1
    /\ pc' = "fetch"
    /\ UNCHANGED <<rwVars, callVars, histVars, storeVars, run, posts, pIdx,
                   paraphrase_result, stats, cur, stats0, runSent, runFetched,
                   runTally, loaded, persisted, prevGap, fetchLog>>

\* main lines 60-70: the next post is counted, fingerprinted and checked
\* against the history.
BeginPost ==
    /\ pc = "post"
    /\ pIdx <= Len(posts)
    /\ LET post_signature == generate_post_signature(posts[pIdx])
           counted == [stats EXCEPT !.total_processed = @ + 1]
           begun == [NoPost EXCEPT !.sig = post_signature,
                                   !.inHist = post_signature \in sent_posts,
                                   !.wasPersisted = post_signature \in persisted]
       IN  IF is_post_sent(sent_posts, post_signature)
           THEN /\ stats' = [counted EXCEPT !.skipped_posts = @ + 1]
                /\ cur' = [begun EXCEPT !.outcome = "skipped"]
                /\ pIdx' = pIdx + 1
                /\ pc' = "post"
           ELSE /\ stats' = counted
                /\ cur' = [begun EXCEPT !.outcome = "begun"]
                /\ pIdx' = pIdx
                /\ pc' = "paraphrase"
    /\ stats0' = stats
    /\ UNCHANGED <<rwVars, callVars, histVars, storeVars, run, chIdx, posts,
                   paraphrase_result, runSent, runFetched, runTally, loaded,
                   persisted, prevGap, fetchLog>>

\* send_post lines 150-153: the text of the post goes to _paraphrase_text.
Paraphrase ==
    /\ pc = "paraphrase"
    /\ LET original_text == StrOr(posts[pIdx].caption, posts[pIdx].text)
       IN  \E shuffled \in Shuffles(paraphrase_models),
              resp \in [ModelSet -> Responses] :
              paraphrase_result' =
                  ResultDict(paraphrase_text(original_text, shuffled, resp))
    /\ cur' = [cur EXCEPT !.rewrites = @ + 1]
    /\ pc' = "dispatch"
    /\ UNCHANGED <<rwVars, callVars, histVars, storeVars, run, chIdx, posts,
                   pIdx, stats, stats0, runSent, runFetched, runTally, loaded,
                   persisted, prevGap, fetchLog>>

\* DispatchOK going on to the sleep without mark_post_sent.
DispatchOKSkipsMark ==
    /\ pc = "dispatch"
    /\ LET original_text == StrOr(posts[pIdx].caption, posts[pIdx].text)
           result == send_post(original_text, paraphrase_result)
       IN  /\ stats' = stats_after_send(stats, result)
           /\ cur' = [cur EXCEPT !.dispatches = @ + 1,
                                 !.outcome = IF paraphrase_result.success
                                             THEN "sent" ELSE "fallback",
                                 !.sent_text = result.new_text]
           /\ runTally' = [runTally EXCEPT
                              !.tokens_used = @ + result.tokens_used]
           /\ pc' = "sleep"
    /\ runSent' = runSent \cup {cur.sig}
    /\ UNCHANGED <<rwVars, callVars, histVars, storeVars, run, chIdx, posts,
                   pIdx, paraphrase_result, stats0, runFetched, loaded,
                   persisted, prevGap, fetchLog>>

\* send_post lines 155-183 when the send call returns, then main lines
\* 78-98.
DispatchOK ==
    /\ pc = "dispatch"
    /\ LET original_text == StrOr(posts[pIdx].caption, posts[pIdx].text)
           result == send_post(original_text, paraphrase_result)
       IN  /\ stats' = stats_after_send(stats, result)
           /\ cur' = [cur EXCEPT !.dispatches = @ + 1,
                                 !.outcome = IF paraphrase_result.success
                                             THEN "sent" ELSE "fallback",
                                 !.sent_text = result.new_text]
           /\ runTally' = [runTally EXCEPT
                              !.tokens_used = @ + result.tokens_used]
           /\ pc' = IF result.success THEN "mark" ELSE "sleep"
    /\ runSent' = runSent \cup {cur.sig}
    /\ UNCHANGED <<rwVars, callVars, histVars, storeVars, run, chIdx, posts,
                   pIdx, paraphrase_result, stats0, runFetched, loaded,
                   persisted, prevGap, fetchLog>>

\* DispatchError with `break` in place of `continue`: the rest of the
\* channel's posts is dropped.
DispatchErrorBreaks ==
    /\ pc = "dispatch"
    /\ cur' = [cur EXCEPT !.dispatches = @ + 1, !.outcome = "errored"]
    /\ runTally' = [runTally EXCEPT !.errored = @ + 1]
    /\ paraphrase_result' = NoResult
    /\ chIdx' = chIdx + 1
    /\ pc' = "fetch"
    /\ UNCHANGED <<rwVars, callVars, histVars, storeVars, run, posts, pIdx,
                   stats, stats0, runSent, runFetched, loaded, persisted,
                   prevGap, fetchLog>>

\* The send call raises: main lines 100-102, `continue`.
DispatchError ==
    /\ pc = "dispatch"
    /\ cur' = [cur EXCEPT !.dispatches = @ + 1, !.outcome = "errored"]
    /\ runTally' = [runTally EXCEPT !.errored = @ + 1]
    /\ paraphrase_result' = NoResult
    /\ pIdx' = pIdx + 1
    /\ pc' = "post"
    /\ UNCHANGED <<rwVars, callVars, histVars, storeVars, run, chIdx, posts,
                   stats, stats0, runSent, runFetched, loaded, persisted,
                   prevGap, fetchLog>>

\* main line 89, mark_post_sent line 61
MarkPostSent ==
    /\ pc = "mark"
    /\ sent_posts' =
           mark_add(sent_posts, generate_post_signature(posts[pIdx]))
    /\ cur' = [cur EXCEPT !.marks = @ + 1]
    /\ pc' = "save"
    /\ UNCHANGED <<rwVars, callVars, histVars, file, run, chIdx, posts, pIdx,
                   paraphrase_result, stats, stats0, runSent, runFetched,
                   runTally, loaded, persisted, prevGap, fetchLog>>

\* SaveHistory taking the fingerprint out of memory when the write fails.
SaveHistoryRollsBack ==
    /\ pc = "save"
    /\ \E wr \in WriteOutcomes :
          /\ file' = save_history(file, sent_posts, wr)
          /\ persisted' = IF wr = "ok"
                          THEN persisted \cup
                                   {generate_post_signature(posts[pIdx])}
                          ELSE {}
          /\ sent_posts' = IF wr = "ok" THEN sent_posts
                           ELSE sent_posts
                                    \ {generate_post_signature(posts[pIdx])}
    /\ pc' = "sleep"
    /\ UNCHANGED <<rwVars, callVars, histVars, run, chIdx, posts, pIdx,
                   paraphrase_result, stats, cur, stats0, runSent, runFetched,
                   runTally, loaded, prevGap, fetchLog>>

\* mark_post_sent line 62, then main lines 91-93; an exception of
\* mark_post_sent would go to main lines 100-102.
SaveHistory ==
    /\ pc = "save"
    /\ \E wr \in WriteOutcomes :
          /\ file' = save_history(file, sent_posts, wr)
          /\ persisted' = IF wr = "ok"
                          THEN persisted \cup
                                   {generate_post_signature(posts[pIdx])}
                          ELSE {}
          /\ pc' = IF save_history_raises(wr) THEN "post" ELSE "sleep"
          /\ pIdx' = IF save_history_raises(wr) THEN pIdx + 1 ELSE pIdx
    /\ UNCHANGED <<rwVars, callVars, histVars, sent_posts, run, chIdx, posts,
                   paraphrase_result, stats, cur, stats0, runSent, runFetched,
                   runTally, loaded, prevGap, fetchLog>>

\* main lines 104-107
Sleep ==
    /\ pc = "sleep"
    /\ \E delay \in min_delay..max_delay :
          cur' = [cur EXCEPT !.sleeps = @ + 1, !.delay = delay]
    /\ paraphrase_result' = NoResult
    /\ pIdx' = pIdx + 1
    /\ pc' = "post"
    /\ UNCHANGED <<rwVars, callVars, histVars, storeVars, run, chIdx, posts,
                   stats, stats0, runSent, runFetched, runTally, loaded,
                   persisted, prevGap, fetchLog>>

\* The fingerprints dispatched in the run that ends with the file f and
\* missing from f; `unmarked` are those whose mark_post_sent was not called.
GapAfter(f, unmarked) ==
    [failed |-> (runSent \ DurableSet(f)) \ unmarked,
     cut |-> unmarked \ DurableSet(f)]

\* The process is interrupted or killed (main lines 159-162 for Ctrl-C).
Interrupted ==
    /\ pc \in Running
    /\ file' \in (IF pc = "save" THEN CrashedWrite(file) ELSE {file})
    /\ persisted' = IF file' # file THEN {} ELSE persisted
    /\ NoProcess
    /\ pc' = "idle"
    /\ UNCHANGED <<rwVars, callVars, histVars, run>>

Crash == Interrupted /\ UNCHANGED prevGap

\* The process ends, after print_statistics or with the error of the setup.
Ended ==
    /\ pc \in {"done"} \cup Aborted
    /\ NoProcess
    /\ pc' = "idle"
    /\ UNCHANGED <<rwVars, callVars, histVars, file, run, persisted>>

EndRun == Ended /\ UNCHANGED prevGap

Next ==
    \/ StartRun \/ SetupFails \/ HistoryManagerInit \/ FetchPosts \/ Finish
    \/ EndChannel \/ BeginPost \/ Paraphrase \/ DispatchOK \/ DispatchError
    \/ MarkPostSent \/ SaveHistory \/ Sleep \/ Crash \/ EndRun

Spec == Init /\ [][Next]_vars

(***************************************************************************)
(* SpecRuns: Spec with a record, kept from the end of one run into the     *)
(* next, of the fingerprints the run dispatched and left out of the file.  *)
(***************************************************************************)
CrashRecorded ==
    /\ Interrupted
    /\ prevGap' = GapAfter(file', IF pc = "mark" THEN {cur.sig} ELSE {})

EndRunRecorded ==
    /\ Ended
    /\ prevGap' = GapAfter(file, {})

NextRuns ==
    \/ StartRun \/ SetupFails \/ HistoryManagerInit \/ FetchPosts \/ Finish
    \/ EndChannel \/ BeginPost \/ Paraphrase \/ DispatchOK \/ DispatchError
    \/ MarkPostSent \/ SaveHistory \/ Sleep
    \/ CrashRecorded \/ EndRunRecorded

SpecRuns == Init /\ [][NextRuns]_vars

(***************************************************************************)
(* SpecLive: the runs of Spec that nothing interrupts, in which every      *)
(* external call (fetch, completion request, send, sleep, file I/O)        *)
(* returns or raises: main is the only task of the event loop and is       *)
(* resumed whenever the call it awaits has completed, so a step of a run   *)
(* that can be taken is eventually taken.                                  *)
(***************************************************************************)
RunStep ==
    \/ HistoryManagerInit \/ FetchPosts \/ Finish \/ EndChannel \/ BeginPost
    \/ Paraphrase \/ DispatchOK \/ DispatchError \/ MarkPostSent
    \/ SaveHistory \/ Sleep

NextLive == StartRun \/ SetupFails \/ RunStep \/ EndRun

SpecLive == Init /\ [][NextLive]_vars /\ WF_vars(RunStep)

(***************************************************************************)
(* SpecFetch: the uninterrupted runs, with the history of the channel and  *)
(* the error of the fetch made explicit.  fetch_posts is awaited at main   *)
(* line 55; main goes on at line 56 when it has returned.                  *)
(* As in SpecLive, every external call returns or raises and main is       *)
(* resumed when it has, so a step of the run that can be taken is          *)
(* eventually taken.                                                       *)
(***************************************************************************)
\* main lines 52-55 and fetch_posts
FetchCall ==
    /\ pc = "fetch"
    /\ chIdx <= Len(source_channels)
    /\ \E chat_history \in ChatHistories(source_channels[chIdx]),
          raise_at \in 0..(MaxPosts + 1) :
          LET r == fetch_posts(chat_history, raise_at)
          IN  /\ raise_at <= Len(chat_history) + 1
              /\ posts' = r.posts
              /\ runFetched' = runFetched + Len(r.posts)
              /\ fetchLog' = [state |-> "returned",
                              channel |-> source_channels[chIdx],
                              chat_history |-> chat_history,
                              raise_at |-> raise_at,
                              error |-> r.error]
    /\ pIdx' = 1
    /\ pc' = "fetched"
    /\ UNCHANGED <<rwVars, callVars, histVars, storeVars, run, chIdx,
                   paraphrase_result, stats, cur, stats0, runSent, runTally,
                   loaded, persisted, prevGap>>

\* main lines 56-60: the posts returned are iterated.
FetchReturn ==
    /\ pc = "fetched"
    /\ fetchLog' = NoFetch
    /\ pc' = "post"
    /\ UNCHANGED <<rwVars, callVars, histVars, storeVars, run, chIdx, posts,
                   pIdx, paraphrase_result, stats, cur, stats0, runSent,
                   runFetched, runTally, loaded, persisted, prevGap>>

RunStepFetch ==
    \/ HistoryManagerInit \/ FetchCall \/ FetchReturn \/ Finish
    \/ EndChannel \/ BeginPost \/ Paraphrase \/ DispatchOK \/ DispatchError
    \/ MarkPostSent \/ SaveHistory \/ Sleep

NextFetch == StartRun \/ SetupFails \/ RunStepFetch \/ EndRun

SpecFetch == Init /\ [][NextFetch]_vars /\ WF_vars(RunStepFetch)

(***************************************************************************)
(* Vocabulary of the properties.                                           *)
(***************************************************************************)
\* The text is empty or consists only of whitespace.
AllSpace(s) == \A i \in DOMAIN s : s[i] = " "

\* The reply is an error (raised by the request, or by .strip() on a None
\* content) or has empty content.
RaisesOrEmpty(r) == r.kind \in {"error", "none"} \/ r.content = <<>>

\* The reply has content of at least one character.
NonEmptyReply(r) == r.kind = "ok" /\ r.content # <<>>

\* The reply has content with a character that is not whitespace.
NonBlankReply(r) == r.kind = "ok" /\ ~AllSpace(r.content)

\* p orders the entries of l: same length, same number of each entry.
IsOrderingOf(p, l) ==
    /\ Len(p) = Len(l)
    /\ \A m \in Elems(l) \cup Elems(p) :
          Cardinality({i \in DOMAIN p : p[i] = m})
              = Cardinality({i \in DOMAIN l : l[i] = m})

ReportedUsage(r) == IF r.usage = <<>> THEN 0 ELSE r.usage[1]

\* The result of the call is Success at position i of the shuffle, after
\* requests to exactly the models at positions 1..i.
SuccessAt(i) ==
    /\ rw.result.success
    /\ rw.result.model_name = rw.shuffled[i]
    /\ rw.result.tokens_used = ReportedUsage(rw.resp[rw.shuffled[i]])
    /\ rw.result.requests = SubSeq(rw.shuffled, 1, i)

(***************************************************************************)
(* C6.  Fallback exhaustion: for a text that is not blank and a model list *)
(* in which every model raises an error or returns empty content,          *)
(* _paraphrase_text returns a Failure result with model_name "failed" and  *)
(* tokens_used 0, after exactly one completion request to every listed     *)
(* model.                                                                  *)
(***************************************************************************)
C6_FallbackExhaustion ==
    (/\ rw.state = "returned"
     /\ ~AllSpace(rw.text)
     /\ \A m \in Elems(rw.models) : RaisesOrEmpty(rw.resp[m]))
    => /\ ~rw.result.success
       /\ rw.result.model_name = "failed"
       /\ rw.result.tokens_used = 0
       /\ IsOrderingOf(rw.result.requests, rw.models)

C6_Witness ==
    /\ rw.state = "returned"
    /\ rw.text = <<" ", "a", "b">>
    /\ rw.models = <<"m1", "m2", "m3">>
    /\ rw.shuffled = <<"m3", "m1", "m2">>
    /\ rw.resp["m1"].kind = "error"
    /\ rw.resp["m2"].kind = "none"
    /\ rw.resp["m3"] = [kind |-> "ok", content |-> <<>>, usage |-> <<1>>]
    /\ rw.result.model_name = "failed"
    /\ rw.result.requests = <<"m3", "m1", "m2">>

(***************************************************************************)
(* C7.  Fallback success.  As claimed: for a text that is not blank, the   *)
(* models are tried in the order of a permutation of the list and the call *)
(* returns Success at the first model that yields a non-empty response,    *)
(* with that model's name and reported usage (0 when none), having         *)
(* requested exactly the models up to and including it.                    *)
(***************************************************************************)
C7_Original_FirstNonEmptyReply ==
    (/\ rw.state = "returned"
     /\ ~AllSpace(rw.text))
    => /\ IsOrderingOf(rw.shuffled, rw.models)
       /\ \A i \in DOMAIN rw.shuffled :
             (/\ NonEmptyReply(rw.resp[rw.shuffled[i]])
              /\ \A j \in 1..(i - 1) : ~NonEmptyReply(rw.resp[rw.shuffled[j]]))
             => SuccessAt(i)

(***************************************************************************)
(* C7 as amended: the call returns Success at the first model whose        *)
(* response is non-empty after surrounding whitespace is stripped; a       *)
(* response of whitespace only is passed over like an empty one.           *)
(***************************************************************************)
C7_FallbackSuccess ==
    (/\ rw.state = "returned"
     /\ ~AllSpace(rw.text))
    => /\ IsOrderingOf(rw.shuffled, rw.models)
       /\ \A i \in DOMAIN rw.shuffled :
             (/\ NonBlankReply(rw.resp[rw.shuffled[i]])
              /\ \A j \in 1..(i - 1) : ~NonBlankReply(rw.resp[rw.shuffled[j]]))
             => SuccessAt(i)

C7_Witness ==
    /\ rw.state = "returned"
    /\ rw.text = <<"a">>
    /\ rw.models = <<"m1", "m2", "m3">>
    /\ rw.shuffled = <<"m2", "m1", "m3">>
    /\ rw.resp["m2"].kind = "error"
    /\ rw.resp["m1"] = [kind |-> "ok", content |-> <<" ">>, usage |-> <<1>>]
    /\ rw.resp["m3"] =
           [kind |-> "ok", content |-> <<" ", "x", " ">>, usage |-> <<>>]
    /\ rw.result.success
    /\ rw.result.model_name = "m3"
    /\ rw.result.tokens_used = 0
    /\ rw.result.text = <<"x">>

(***************************************************************************)
(* C8.  Empty-text short-circuit: for a text that is empty or whitespace   *)
(* only, _paraphrase_text returns Success with the text unchanged,         *)
(* model_name "no_text" and tokens_used 0, and issues no completion        *)
(* request, whatever the model list.                                       *)
(***************************************************************************)
C8_EmptyTextShortCircuit ==
    (rw.state = "returned" /\ AllSpace(rw.text))
    => /\ rw.result.success
       /\ rw.result.text = rw.text
       /\ rw.result.model_name = "no_text"
       /\ rw.result.tokens_used = 0
       /\ rw.result.requests = <<>>

C8_Witness ==
    /\ rw.state = "returned"
    /\ rw.text = <<" ", " ">>
    /\ rw.models = <<"m1", "m2", "m3">>
    /\ \A m \in Elems(rw.models) : NonBlankReply(rw.resp[m])
    /\ rw.result.model_name = "no_text"
    /\ rw.result.requests = <<>>

(***************************************************************************)
(* C9.  History invariant.  As claimed: in every reachable state of the    *)
(* History Store (after any sequence of load, mark_post_sent and           *)
(* clear_history, read and write failures allowed), the in-memory set of   *)
(* fingerprints contains the set stored in the history file.               *)
(***************************************************************************)
C9_Original_MemoryContainsFile ==
    hpc # "down" => DurableSet(file) \subseteq sent_posts

(***************************************************************************)
(* C9 as amended: the in-memory set contains the set stored in the file    *)
(* in every state of the store reached without a failed read in the load   *)
(* and without a failed write in clear_history since the file was last     *)
(* read or written successfully; write failures of mark_post_sent are      *)
(* allowed.  (A load that cannot read the file, and a clear_history that   *)
(* cannot write it, leave an empty memory beside a file that still holds   *)
(* fingerprints.)                                                          *)
(***************************************************************************)
C9_HistoryInvariant ==
    (hpc # "down" /\ ~hist.stale) => DurableSet(file) \subseteq sent_posts

C9_Witness ==
    /\ hpc = "ready"
    /\ ~hist.stale
    /\ hist.fault
    /\ DurableSet(file) # {}
    /\ DurableSet(file) \subseteq sent_posts
    /\ DurableSet(file) # sent_posts

(***************************************************************************)
(* C10.  Crash loss bound: if the process dies inside mark_post_sent after *)
(* the in-memory insertion (before or during the rewrite of the file),     *)
(* the next load yields every fingerprint that was in the store before     *)
(* that mark_post_sent.  Stated for runs without any read or write         *)
(* failure; the code violates it, because open(..., "w") truncates the     *)
(* file before json.dump has written the new record.                       *)
(***************************************************************************)
C10_CrashLossBound ==
    (hpc = "ready" /\ hist.crashed = "in_mark" /\ ~hist.fault)
    => hist.before \subseteq sent_posts

(***************************************************************************)
(* C11.  Persistence round-trip.  As claimed: whenever the most recent     *)
(* write of the history file succeeded (the initial write on a missing     *)
(* file, or the write of a mark_post_sent or of a clear_history), a new    *)
(* HistoryManager constructed on the file holds a set of fingerprints      *)
(* equal to the in-memory set of the writer and reports the same           *)
(* get_total_sent; a missing file gives an empty store and a created file, *)
(* and clear_history leaves an empty record in the file.                   *)
(***************************************************************************)
\* The store has just been constructed on a file that was there.
Reloaded == hpc = "ready" /\ hist.op \in {"load", "load_failed"}

RoundTripEnds ==
    /\ (hpc = "ready" /\ hist.op = "create")
          => /\ sent_posts = {}
             /\ hist.write = "ok" => /\ file.kind = "valid"
                                     /\ read_record(file) = {}
    /\ (hist.op = "clear" /\ hist.write = "ok")
          => /\ file.kind = "valid"
             /\ read_record(file) = {}
             /\ sent_posts = {}

C11_Original_EveryConstruction ==
    /\ (Reloaded /\ hist.write = "ok")
          => /\ sent_posts = hist.written
             /\ get_total_sent(sent_posts) = get_total_sent(hist.written)
    /\ RoundTripEnds

(***************************************************************************)
(* C11 as amended: the new HistoryManager holds the set the writer had in  *)
(* memory at that write, and the same get_total_sent, when its             *)
(* _load_history reads the file without an I/O error; when the read fails  *)
(* it holds the empty set, whatever the file holds.                        *)
(***************************************************************************)
C11_PersistenceRoundTrip ==
    /\ (Reloaded /\ hist.write = "ok")
          => IF hist.op = "load"
             THEN /\ sent_posts = hist.written
                  /\ get_total_sent(sent_posts) = get_total_sent(hist.written)
                  /\ DurableSet(file) = hist.written
             ELSE /\ sent_posts = {}
                  /\ DurableSet(file) = hist.written
    /\ RoundTripEnds

\* A store of two fingerprints, written by a process that has ended, is
\* read by a new HistoryManager; an earlier write had failed.
C11_Witness ==
    /\ hpc = "ready"
    /\ hist.op = "load"
    /\ hist.write = "ok"
    /\ hist.fault
    /\ Cardinality(hist.written) = 2
    /\ sent_posts = hist.written
    /\ get_total_sent(sent_posts) = 2

(***************************************************************************)
(* C12.  Dedup idempotence.  As claimed: a second call mark_post_sent(fp)  *)
(* with the same fingerprint leaves is_post_sent(fp) true and              *)
(* get_total_sent() at its value after the first call; the set of          *)
(* fingerprints in memory and in the persisted record is unchanged by the  *)
(* second call.                                                            *)
(***************************************************************************)
\* A call mark_post_sent(fp) for a fingerprint already in the store has
\* inserted (op "insert") or has returned (op "mark").
SecondMark == hist.op \in {"insert", "mark"} /\ hist.fp \in hist.before

MemoryIdempotent ==
    SecondMark
    => /\ is_post_sent(sent_posts, hist.fp)
       /\ get_total_sent(sent_posts) = get_total_sent(hist.before)
       /\ sent_posts = hist.before

C12_Original_RecordUnchanged ==
    /\ MemoryIdempotent
    /\ (SecondMark /\ hist.op = "mark")
          => DurableSet(file) = DurableSet(hist.fileBefore)

(***************************************************************************)
(* C12 as amended: the second call leaves is_post_sent(fp) true,           *)
(* get_total_sent() and the set in memory unchanged, whatever its write    *)
(* does.  The persisted record holds the in-memory set after the call when *)
(* the write of the call succeeds, so it is unchanged by the call when it  *)
(* held that set before (the write of the first call had succeeded) and    *)
(* gains fp and whatever else it lacked when it did not; when the write    *)
(* fails, the file is as it was before the call, or is left without a      *)
(* readable record when the failure came after the file was opened.        *)
(***************************************************************************)
C12_DedupIdempotence ==
    /\ MemoryIdempotent
    /\ (SecondMark /\ hist.op = "mark")
          => IF hist.write = "ok"
             THEN /\ file.kind = "valid"
                  /\ read_record(file) = hist.before
                  /\ (/\ hist.fileBefore.kind = "valid"
                      /\ read_record(hist.fileBefore) = hist.before)
                        => read_record(file) = read_record(hist.fileBefore)
             ELSE file \in {hist.fileBefore, FileCorrupt}

\* The second of two calls with the same fingerprint has returned; the
\* store holds two fingerprints, in memory and in the file.
C12_Witness ==
    /\ hpc = "ready"
    /\ hist.op = "mark"
    /\ hist.fp \in hist.before
    /\ hist.write = "ok"
    /\ Cardinality(hist.before) = 2
    /\ read_record(hist.fileBefore) = hist.before
    /\ read_record(file) = hist.before
    /\ get_total_sent(sent_posts) = 2

(***************************************************************************)
(* C13.  History failures never propagate: a load that cannot read or      *)
(* parse the file returns with an empty in-memory store; a mark_post_sent  *)
(* or clear_history (or the initial write of a load) whose write fails     *)
(* returns to its caller, which can go on with its next call; after a      *)
(* failed write of mark_post_sent(fp), is_post_sent(fp) is true, and no    *)
(* later call of the run other than clear_history takes a fingerprint out  *)
(* of the store, whether its write fails or not.                           *)
(***************************************************************************)
C13_HistoryFailuresSwallowed ==
    /\ [](hist.op = "load_failed" => hpc = "ready" /\ sent_posts = {})
    /\ []((hist.op \in {"create", "mark", "clear"} /\ hist.write = "failed")
             => hpc = "ready")
    /\ []((hist.op = "mark" /\ hist.write = "failed")
             => is_post_sent(sent_posts, hist.fp))
    /\ [][(hpc # "down" /\ hpc' # "down" /\ hist'.op # "clear")
            => \A fp \in Sigs : is_post_sent(sent_posts, fp)
                                   => is_post_sent(sent_posts', fp)]_vars

\* The load could not read a file that holds a fingerprint, and the write
\* of a mark_post_sent of another one then failed: the call returned, the
\* mark stands in memory and is not in the file.
C13_Witness ==
    /\ hpc = "ready"
    /\ hist.op = "mark"
    /\ hist.write = "failed"
    /\ hist.stale
    /\ is_post_sent(sent_posts, hist.fp)
    /\ DurableSet(file) # {}
    /\ hist.fp \notin DurableSet(file)

(***************************************************************************)
(* Vocabulary of the pipeline properties.  cur describes the post last     *)
(* begun, stats0 the statistics when it was begun.                         *)
(***************************************************************************)
\* main is between two posts: the post last begun has been left.
BetweenPosts == pc \in {"post", "fetch", "done"}

\* The dispatch of the post last begun returned without error.
Dispatched == cur.outcome \in {"sent", "fallback"}

(***************************************************************************)
(* C1.  Pipeline skip.  As claimed: for a post whose fingerprint is in the *)
(* History Store when the pipeline reaches it, neither _paraphrase_text    *)
(* nor a dispatch is invoked, and the only statistics counter incremented  *)
(* for it is the skipped counter.                                          *)
(***************************************************************************)
C1_Original_OnlySkippedCounter ==
    cur.inHist
    => /\ cur.rewrites = 0
       /\ cur.dispatches = 0
       /\ stats = [stats0 EXCEPT !.skipped_posts = @ + 1]

(***************************************************************************)
(* C1 as amended: for such a post neither _paraphrase_text nor a dispatch  *)
(* is invoked, and the statistics counters incremented for it are          *)
(* total_processed (every post is counted when it is begun) and skipped,   *)
(* each by one, and no other.                                              *)
(***************************************************************************)
C1_PipelineSkip ==
    cur.inHist
    => /\ cur.outcome = "skipped"
       /\ cur.rewrites = 0
       /\ cur.dispatches = 0
       /\ cur.marks = 0
       /\ stats = [stats0 EXCEPT !.total_processed = @ + 1,
                                 !.skipped_posts = @ + 1]

C1_Witness ==
    /\ cur.inHist
    /\ cur.outcome = "skipped"
    /\ run = 2
    /\ runSent = {}
    /\ stats.skipped_posts = 1
    /\ stats.total_processed = 2

(***************************************************************************)
(* C2.  For every post that is not in history and whose dispatch returns   *)
(* without error, mark_post_sent is called with its fingerprint after the  *)
(* dispatch and before the next post is begun, after a rewrite Success and *)
(* after a rewrite Failure alike; from then on is_post_sent(fingerprint)   *)
(* is true for the rest of the run.                                        *)
(***************************************************************************)
C2_MarkAfterDispatch ==
    /\ (Dispatched /\ pc # "mark")
           => cur.marks = 1 /\ is_post_sent(sent_posts, cur.sig)
    /\ cur.marks > 0 => Dispatched /\ cur.dispatches = 1
    /\ \A fp \in runSent :
          \/ pc = "mark" /\ fp = cur.sig
          \/ is_post_sent(sent_posts, fp)

C2_Witness ==
    /\ pc = "done"
    /\ cur.outcome = "sent"
    /\ cur.marks = 1
    /\ Cardinality(runSent) = 2
    /\ runSent \subseteq sent_posts
    /\ stats.models_used["original"] = 1

(***************************************************************************)
(* C3.  Across runs with working persistence: a post that was dispatched   *)
(* in one run and whose mark_post_sent wrote the history file, is skipped  *)
(* as a duplicate and not dispatched in every later run that loads the     *)
(* file, as long as no history read or write fails and clear_history is    *)
(* not called (main never calls it).                                       *)
(***************************************************************************)
C3_NoResendAcrossRuns ==
    cur.wasPersisted
    => /\ cur.outcome = "skipped"
       /\ cur.dispatches = 0

C3_Witness ==
    /\ run = 2
    /\ cur.wasPersisted
    /\ cur.sig \notin runSent
    /\ cur.outcome = "skipped"

(***************************************************************************)
(* C4.  Dispatch error isolation: when the dispatch of a post raises, the  *)
(* post's fingerprint is not added to the History Store (memory and file   *)
(* stay as they are), the sent counter is not incremented, and main goes   *)
(* on with the next post of the channel; a run that ends has begun every   *)
(* post every channel returned.                                            *)
(***************************************************************************)
C4_DispatchErrorIsolation ==
    /\ [][(pc = "dispatch" /\ cur'.outcome = "errored")
            => /\ sent_posts' = sent_posts
               /\ file' = file
               /\ stats'.sent_posts = stats.sent_posts
               /\ cur'.marks = 0
               /\ pc' = "post"
               /\ posts' = posts
               /\ chIdx' = chIdx
               /\ pIdx' = pIdx + 1]_vars
    /\ [](pc = "done" => /\ chIdx = Len(source_channels) + 1
                         /\ stats.total_processed = runFetched)

\* Two of three posts raised in the dispatch, the last one among them, so
\* a post was begun after a dispatch had raised; the run ended.
C4_Witness ==
    /\ pc = "done"
    /\ cur.outcome = "errored"
    /\ cur.sig \notin sent_posts
    /\ stats.total_processed = 3
    /\ stats.sent_posts = 1
    /\ stats.skipped_posts = 0
    /\ Cardinality(sent_posts) = 1

(***************************************************************************)
(* C5.  Pacing: after every post that reaches the dispatch step, whether   *)
(* the dispatch returned or raised, main sleeps for a duration d with      *)
(* min_delay <= d <= max_delay before it begins the next post; only posts  *)
(* skipped as duplicates are followed by no sleep.  The code violates it:  *)
(* the `continue` of the exception handler skips the sleep.                *)
(***************************************************************************)
C5_Pacing ==
    BetweenPosts
    => /\ cur.dispatches > 0
             => /\ cur.sleeps = 1
                /\ min_delay <= cur.delay
                /\ cur.delay <= max_delay
       /\ cur.sleeps = 0 => cur.outcome \in {"none", "skipped"}

(***************************************************************************)
(* C18.  At most one dispatch per fingerprint within a run: every dispatch *)
(* that returns without error is of a fingerprint that no dispatch of the  *)
(* run has returned for before, so the number of dispatches that returned  *)
(* is the number of distinct fingerprints dispatched; a post whose         *)
(* fingerprint the run has dispatched is skipped when it is yielded again, *)
(* by the same or by another channel, also when every write of the         *)
(* history file fails.                                                     *)
(***************************************************************************)
C18_OneDispatchPerFingerprint ==
    /\ [][(pc = "dispatch" /\ pc' \in {"mark", "sleep"})
            => /\ cur.sig \notin runSent
               /\ runSent' = runSent \cup {cur.sig}]_vars
    /\ [](pc \in Running \cup {"done"}
            => stats.sent_posts = Cardinality(runSent))
    /\ []((cur.sig \in runSent /\ cur.inHist)
            => cur.outcome = "skipped" /\ cur.dispatches = 0)
    /\ [](pc \in {"paraphrase", "dispatch"} => cur.sig \notin runSent)

\* No write of the history file has succeeded, the initial one included:
\* there is no file.  The post this run has dispatched is yielded again
\* and skipped.
C18_Witness ==
    /\ file.kind = "missing"
    /\ cur.sig \in runSent
    /\ cur.inHist
    /\ cur.outcome = "skipped"
    /\ stats.sent_posts = 1
    /\ stats.skipped_posts = 1

(***************************************************************************)
(* C19.  Every post handed to the pipeline reaches exactly one of the      *)
(* terminal outcomes SENT, SKIPPED_DUPLICATE, SENT_WITH_FALLBACK and       *)
(* ERRORED: a post that has been begun gets one of them, has it when main  *)
(* goes on to the next post, and keeps it.  With finite lists of channels  *)
(* and posts and external calls that return or raise, a run that has       *)
(* passed the setup finishes: it reaches the point where the statistics    *)
(* are printed, having begun every post it was handed.  The rewrite of one *)
(* post is one call of _paraphrase_text, which issues at most as many      *)
(* completion requests as there are configured models.                     *)
(***************************************************************************)
Terminal == {"sent", "skipped", "fallback", "errored"}

C19_TerminalOutcomeAndTermination ==
    /\ [](BetweenPosts => cur.outcome \in Terminal \cup {"none"})
    /\ [](pc \in {"paraphrase", "dispatch"} => cur.outcome = "begun")
    /\ [](pc \in {"mark", "save", "sleep"} => cur.outcome \in Terminal)
    /\ [][(cur.outcome \in Terminal /\ cur'.outcome # cur.outcome)
            => (pc = "post" \/ pc' = "idle")]_vars
    /\ (cur.outcome = "begun") ~> (cur.outcome \in Terminal)
    /\ (pc \in Running) ~> (pc = "done")
    /\ [](pc = "done" => stats.total_processed = runFetched)
    /\ [](cur.rewrites <= 1)
    /\ [](pc = "dispatch"
            => paraphrase_result.requests <= Len(paraphrase_models))

\* A finished run of four posts, one with each outcome: sent after a
\* rewrite, sent with the fallback text, skipped, errored.
C19_Witness ==
    /\ pc = "done"
    /\ stats.total_processed = 4
    /\ runFetched = 4
    /\ stats.sent_posts = 2
    /\ stats.models_used["original"] = 1
    /\ stats.skipped_posts = 1
    /\ cur.outcome = "fallback"

(***************************************************************************)
(* C20.  History grows only by dispatched posts.  As claimed: in every     *)
(* reachable state of a run, the in-memory history set equals the set      *)
(* loaded at the start united with the fingerprints of the posts whose     *)
(* dispatch returned without error in this run; mark_post_sent is never    *)
(* called for a post before its dispatch has completed, nor for a post     *)
(* that was skipped or whose dispatch raised.                              *)
(***************************************************************************)
\* The run has a history: HistoryManager() has returned.
HasHistory == pc \in (Running \ {"history"}) \cup {"done"}

MarkOnlyAfterDispatch ==
    /\ cur.marks > 0 => Dispatched /\ cur.dispatches = 1
    /\ cur.outcome \in {"begun", "skipped", "errored"} => cur.marks = 0
    /\ cur.marks <= 1

C20_Original_EveryState ==
    /\ HasHistory => sent_posts = loaded \cup runSent
    /\ MarkOnlyAfterDispatch

(***************************************************************************)
(* C20 as amended: the equality holds in every state of a run but those    *)
(* between the return of a dispatch and the call of mark_post_sent that    *)
(* follows it (main lines 78-89), where the fingerprint of the post just   *)
(* dispatched is not yet in the set: there the in-memory set is the loaded *)
(* set united with the fingerprints dispatched before this post.           *)
(***************************************************************************)
C20_HistoryGrowsByDispatched ==
    /\ (HasHistory /\ pc # "mark") => sent_posts = loaded \cup runSent
    /\ pc = "mark" => /\ sent_posts = loaded \cup (runSent \ {cur.sig})
                      /\ cur.sig \in runSent
                      /\ cur.sig \notin sent_posts
    /\ MarkOnlyAfterDispatch

\* A run that loaded a fingerprint and dispatched another; the dispatch of
\* the post last begun raised, and its fingerprint is not in the set.
C20_Witness ==
    /\ HasHistory
    /\ loaded # {}
    /\ runSent # {}
    /\ sent_posts = loaded \cup runSent
    /\ cur.outcome = "errored"
    /\ cur.marks = 0
    /\ cur.sig \notin sent_posts

(***************************************************************************)
(* C14.  Known duplicate-send gap: a post can be dispatched in two         *)
(* consecutive runs.  When the dispatch of a post returned and the run     *)
(* ended with its fingerprint missing from the history file, because the   *)
(* write of the following mark_post_sent failed or because the process     *)
(* was interrupted between the dispatch and mark_post_sent, the next run   *)
(* does not find the post in the history: when it is yielded it is not     *)
(* skipped but rewritten and handed to the dispatch again (it is skipped   *)
(* only after this run has dispatched it itself).                          *)
(***************************************************************************)
C14_DuplicateSendGap ==
    (cur.sig \in prevGap.failed \cup prevGap.cut)
    => /\ cur.outcome = "skipped" => cur.sig \in runSent
       /\ (cur.sig \notin runSent /\ BetweenPosts) => cur.dispatches = 1
       /\ (Dispatched /\ pc # "mark") => cur.sig \in sent_posts

\* The run before dispatched two posts and left both out of the file: the
\* write of the first one's mark_post_sent failed, the process was
\* interrupted before the second one's.  This run has dispatched both
\* again.
C14_Witness ==
    /\ run = 2
    /\ prevGap.failed # {}
    /\ prevGap.cut # {}
    /\ prevGap.failed \cup prevGap.cut \subseteq runSent
    /\ cur.sig \in prevGap.cut
    /\ ~cur.inHist
    /\ Dispatched
    /\ cur.dispatches = 1

(***************************************************************************)
(* C15.  Fatal setup errors abort before any processing: when validate     *)
(* rejects the configuration (a required setting missing, an empty list of *)
(* source channels or of models, invalid delay bounds) or get_client or    *)
(* the health check raises, the run ends with that error: no post has been *)
(* fetched, rewritten or dispatched, no fingerprint has been marked, no    *)
(* HistoryManager has been constructed, and the history file is as it was  *)
(* before the run, neither read nor written.                               *)
(***************************************************************************)
C15_FatalSetupErrors ==
    /\ [](pc \in Aborted
            => /\ runFetched = 0
               /\ posts = <<>>
               /\ cur = NoPost
               /\ paraphrase_result = NoResult
               /\ runSent = {}
               /\ stats = InitStats
               /\ sent_posts = {})
    /\ [][(pc \in Aborted \/ pc' \in Aborted)
            => /\ file' = file
               /\ sent_posts' = sent_posts
               /\ persisted' = persisted]_vars
    /\ [][(pc' \in Aborted) => (pc = "idle")]_vars
    /\ [][(pc \in Aborted) => (pc' = "idle")]_vars

\* The second run is given a configuration validate rejects, beside a
\* history file that holds fingerprints of the first run: nothing of it
\* has been read.
C15_Witness ==
    /\ pc = "validate_raised"
    /\ run = 2
    /\ DurableSet(file) # {}
    /\ sent_posts = {}
    /\ runFetched = 0

(***************************************************************************)
(* C16.  Delay bounds validation: for a configuration with every required  *)
(* setting present, Settings.validate accepts it if and only if            *)
(* 0 <= min_delay <= max_delay; min_delay = 10 with max_delay = 5 is       *)
(* rejected, a negative bound is rejected, min_delay = max_delay = 5 is    *)
(* accepted.                                                               *)
(***************************************************************************)
C16_DelayBoundsValidation ==
    (call.state = "returned" /\ all_required(call.config))
    => LET lo == call.config.min_delay
           hi == call.config.max_delay
       IN  /\ call.result = "ok" <=> (0 <= lo /\ lo <= hi)
           /\ (lo = 10 /\ hi = 5) => call.result # "ok"
           /\ (lo < 0 \/ hi < 0) => call.result # "ok"
           /\ (lo = 5 /\ hi = 5) => call.result = "ok"

C16_Witness ==
    /\ call.state = "returned"
    /\ all_required(call.config)
    /\ call.config.min_delay = 5
    /\ call.config.max_delay = 5
    /\ call.result = "ok"

(***************************************************************************)
(* C17.  Fingerprint determinism: generate_post_signature is a function of *)
(* the channel id, the message id, the timestamp and the first 100         *)
(* characters of the caption, or of the text when there is no caption, or  *)
(* of the empty string when there is neither: two messages that agree on   *)
(* these four get the same fingerprint, whatever follows the first 100     *)
(* characters; a message with neither caption nor text gets the            *)
(* fingerprint of the empty content.                                       *)
(***************************************************************************)
\* caption, or text, or "".
ContentOf(m) == IF m.caption # <<>> THEN m.caption ELSE m.text

\* The first 100 characters of s, all of s when it has fewer.
First100(s) == [i \in {j \in DOMAIN s : j <= 100} |-> s[i]]

SameComponents(a, b) ==
    /\ a.chat = b.chat
    /\ a.id = b.id
    /\ a.date = b.date
    /\ First100(ContentOf(a)) = First100(ContentOf(b))

C17_FingerprintDeterminism ==
    call.state = "returned"
    => /\ SameComponents(call.a, call.b) => call.sig_a = call.sig_b
       /\ (call.a.caption = <<>> /\ call.a.text = <<>>)
             => call.sig_a = <<call.a.chat, call.a.id, call.a.date, <<>>>>

\* A caption of 101 characters and a text of 102 characters that differ
\* from the 101st character on.
C17_Witness ==
    /\ call.state = "returned"
    /\ call.a.caption = LongText(SignaturePrefixLen + 1, "y")
    /\ call.b.caption = <<>>
    /\ call.b.text = LongText(SignaturePrefixLen + 2, "x")
    /\ SameComponents(call.a, call.b)
    /\ call.sig_a = call.sig_b

(***************************************************************************)
(* C21  Statistics accounting.  Between posts and at the end of a run,     *)
(* total_processed is the sum of sent_posts, skipped_posts,                *)
(* failed_paraphrase and the number of posts whose dispatch raised; the    *)
(* counts in models_used add up to sent_posts; tokens_used is the sum of   *)
(* the tokens_used of the results send_post returned for the sent posts.   *)
(***************************************************************************)
RECURSIVE SumOf(_, _)
SumOf(f, S) ==
    IF S = {} THEN 0
    ELSE LET n == CHOOSE x \in S : TRUE
         IN  f[n] + SumOf(f, S \ {n})

C21_StatisticsAccounting ==
    BetweenPosts
       => /\ stats.total_processed =
                stats.sent_posts + stats.skipped_posts
                   + stats.failed_paraphrase + runTally.errored
          /\ SumOf(stats.models_used, DOMAIN stats.models_used)
                = stats.sent_posts
          /\ stats.tokens_used = runTally.tokens_used

\* The end of a run of four posts: one sent with a paid rewrite, one sent
\* otherwise, one skipped, one whose dispatch raised.
C21_Witness ==
    /\ pc = "done"
    /\ stats.total_processed = 4
    /\ stats.sent_posts = 2
    /\ stats.skipped_posts = 1
    /\ runTally.errored = 1
    /\ stats.tokens_used = 1
    /\ stats.models_used["m1"] = 1
    /\ stats.models_used["original"] = 1

(***************************************************************************)
(* C22  A post whose rewrite ended in Failure and whose dispatch, with the *)
(* original text, returned is counted as a send: sent_posts and            *)
(* models_used["original"] go up by one, tokens_used and failed_paraphrase *)
(* stay, and main goes on to mark_post_sent.  failed_paraphrase is 0 in    *)
(* every state.                                                            *)
(***************************************************************************)
\* The send call of send_post returns for a post whose rewrite failed.
FallbackDispatched ==
    /\ pc = "dispatch"
    /\ ~paraphrase_result.success
    /\ pc' \in {"mark", "sleep"}

C22_FallbackCountedAsSent ==
    /\ [](stats.failed_paraphrase = 0)
    /\ [][FallbackDispatched
            => /\ stats'.sent_posts = stats.sent_posts + 1
               /\ stats'.models_used["original"]
                     = stats.models_used["original"] + 1
               /\ \A n \in StatNames \ {"original"} :
                     stats'.models_used[n] = stats.models_used[n]
               /\ stats'.tokens_used = stats.tokens_used
               /\ stats'.failed_paraphrase = stats.failed_paraphrase
               /\ stats'.total_processed = stats.total_processed
               /\ stats'.skipped_posts = stats.skipped_posts
               /\ pc' = "mark"]_vars

\* The original text of a post has been sent after every model failed, and
\* the post is in the history and in the counters of the sent posts.
C22_Witness ==
    /\ pc = "sleep"
    /\ cur.outcome = "fallback"
    /\ paraphrase_result.requests = Len(paraphrase_models)
    /\ cur.sig \in sent_posts
    /\ stats.sent_posts = 1
    /\ stats.models_used["original"] = 1
    /\ stats.tokens_used = 0
    /\ stats.failed_paraphrase = 0

(***************************************************************************)
(* C23  Fetch failure isolation.  When the fetch of a channel's history    *)
(* raises, fetch_posts returns to main the accepted posts collected before *)
(* the error; main counts each of them and then scans the channel that     *)
(* follows in source_channels, up to the end of the run.                   *)
(***************************************************************************)
\* The call of fetch_posts that has just returned met an error: no message
\* before the position of the error was older than the period.
FetchError ==
    /\ pc = "fetched"
    /\ fetchLog.raise_at # 0
    /\ \A i \in 1..(fetchLog.raise_at - 1) :
          fetchLog.chat_history[i].date >= from_date

Accepted(m) ==
    /\ ~m.service
    /\ m.message.text # <<>> \/ m.message.caption # <<>>

\* The accepted messages among those yielded before the error.
CollectedBeforeError ==
    LET yielded == SubSeq(fetchLog.chat_history, 1, fetchLog.raise_at - 1)
        kept == SelectSeq(yielded, Accepted)
    IN  [i \in 1..Len(kept) |-> kept[i].message]

C23_FetchFailureIsolation ==
    /\ [](pc = "fetched"
            => /\ fetchLog.channel = source_channels[chIdx]
               /\ fetchLog.error <=> FetchError)
    /\ [](FetchError => posts = CollectedBeforeError /\ pIdx = 1)
    /\ [][(pc = "fetched")
             => (pc' = "post" /\ posts' = posts /\ chIdx' = chIdx)]_vars
    /\ [][(chIdx' # chIdx /\ pc \in {"post", "dispatch"})
             => (chIdx' = chIdx + 1 /\ pIdx > Len(posts)
                 /\ stats.total_processed = runFetched)]_vars
    /\ \A i \in DOMAIN source_channels :
          (FetchError /\ chIdx = i)
             ~> (pc = "fetch" /\ chIdx = i + 1
                 /\ stats.total_processed = runFetched)
    /\ \A i \in 1..(Len(source_channels) - 1) :
          (FetchError /\ chIdx = i) ~> (pc = "fetched" /\ chIdx = i + 1)
    /\ FetchError ~> (pc = "done" /\ stats.total_processed = runFetched)

\* The two posts of the first channel have been counted; the fetch of the
\* second channel has met an error at its third message, after a post that
\* was accepted and a service message, and has returned the one post.
C23_Witness ==
    /\ FetchError
    /\ chIdx = 2
    /\ stats.total_processed = 2
    /\ fetchLog.raise_at = 3
    /\ fetchLog.chat_history[2].service
    /\ Len(posts) = 1
    /\ runFetched = 3

=============================================================================
